---------------------------- MODULE Spec2Model ----------------------------
(***************************************************************************)
(* Session / token issuance and request authorization of moltbook-frontend *)
(*                                                                         *)
(*   lib/auth/store   (src/unnamed/part_003)  the Session Store            *)
(*   api/auth/refresh (src/src/app/api/auth/refresh/route.ts)              *)
(*   middleware       (src/unnamed/part_001)  the Authorization Gate       *)
(*   lib/auth/roles   (src/unnamed/part_004)  roles and route permissions  *)
(*   lib/auth/keys    (src/unnamed/part_002)  the signing key cache        *)
(*   lib/auth/jwt     (src/src/lib/auth/jwt.ts)  access tokens             *)
(*   api/auth/login   (src/src/app/api/auth/login/route.ts)                *)
(*                                                                         *)
(* JavaScript runs every synchronous function to completion, so one call   *)
(* of a store function is one atomic step taken at one clock value; an     *)
(* async handler is cut into steps at its awaits.                          *)
(***************************************************************************)
EXTENDS Integers, Sequences, FiniteSets, TLC

VARIABLES
    sessions,       \* store: Map<string, Session>, id -> entry
    userSessions,   \* store: Map<string, Set<string>>, a Set kept in insertion order
    nextId,         \* the next identifier randomUUID() hands out
    now,            \* Date.now(), in ms since the module was loaded
    last,           \* history: the last store call, its argument, what it found and returned
    okCount,        \* history: per identifier, how many consumeSession calls succeeded
    issuedTo,       \* history: per identifier handed out so far, the user it was created for
    revoked,        \* history: identifiers that had been issued to a user when invalidateUser ran
    cleared,        \* history: users invalidated and not given a session since
    privateKeyEnv,  \* process.env.JWT_PRIVATE_KEY: "set", "unset" or "garbled"
    publicKeyEnv,   \* process.env.JWT_PUBLIC_KEY, likewise
    privateKey,     \* keys: the cached private key, "null" or "key"
    publicKey,      \* keys: the cached public key, "null" or "key"
    refresh,        \* the refresh requests in flight: slot -> position and response
    gate,           \* the request passing the Authorization Gate: position and outcome
    loginAttempts,  \* login: Map<string, {count, windowStart}>, ip -> entry
    tried,          \* history: per ip, the attempts made since the first of its window
    passed,         \* history: per ip, the times of the attempts that passed the rate check
    login,          \* the login request being handled: position and response
    jwt,            \* a token signed and verified outside any handler
    keyCalls,       \* keys: the getPrivateKey / getPublicKey calls in flight, and their history
    shadow,         \* history: the store as it would be had pruneExpired never run
    chainOf         \* history: per identifier in the table, the login-created identifier it descends from

envVars == <<privateKeyEnv, publicKeyEnv>>
cacheVars == <<privateKey, publicKey>>
loginVars == <<loginAttempts, tried, passed, login>>

vars == <<sessions, userSessions, nextId, now, last, okCount, issuedTo, revoked,
          cleared, envVars, cacheVars, refresh, gate, loginVars, jwt, keyCalls,
          shadow, chainOf>>

----------------------------------------------------------------------------
(* Bounds of the model *)

MaxSessions == 3      \* identifiers randomUUID() may hand out
MaxTicks == 1         \* clock steps
MaxRefresh == 2       \* refresh requests handled
MaxQuarters == 1      \* quarter-hours the short clock runs through
MaxOver == 1          \* attempts followed past the rate limit, per window
MaxKeyCalls == 2      \* calls of the key getters followed one by one

Users == {"alice", "bob"}
ApiKeys == {"mk_a", "mk_b"}

\* api/auth/login, lines 97-109: the user id is the agent the backend's
\* /agents/me names for the API key presented
AgentOf(apiKey) == IF apiKey = "mk_a" THEN "alice" ELSE "bob"
Ids == 1..MaxSessions

----------------------------------------------------------------------------
(* lib/auth/store *)

SESSION_TTL_MS == 7 * 24 * 60 * 60 * 1000

Session(moltbookApiKey, userId, expiresAt, used) ==
    [moltbookApiKey |-> moltbookApiKey, userId |-> userId,
     expiresAt |-> expiresAt, used |-> used]

\* an entry consumeSession accepts at time t: present, not expired by its test
\* (line 42), not used (line 46)
Live(S, id, t) == id \in DOMAIN S /\ ~(S[id].expiresAt < t) /\ ~S[id].used

\* the value a store function returns for null
Null == [null |-> TRUE]

\* Map.delete(id)
MapDelete(M, id) == [k \in DOMAIN M \ {id} |-> M[k]]

\* Set.add(id) on an insertion-ordered Set
SetAdd(ids, id) ==
    IF \E i \in 1..Len(ids) : ids[i] = id THEN ids ELSE Append(ids, id)

SetOf(ids) == {ids[i] : i \in 1..Len(ids)}

Store(S, U, n, result) ==
    [sessions |-> S, userSessions |-> U, nextId |-> n, result |-> result]

\* createSession(userId, moltbookApiKey) called at time t, randomUUID() giving n
createSession(S, U, n, userId, moltbookApiKey, t) ==
    LET id == n
        expiresAt == t + SESSION_TTL_MS
        S1 == S @@ (id :> Session(moltbookApiKey, userId, expiresAt, FALSE))
        U1 == IF userId \notin DOMAIN U THEN U @@ (userId :> << >>) ELSE U
        U2 == [U1 EXCEPT ![userId] = SetAdd(@, id)]
    IN  Store(S1, U2, n + 1, id)

\* a bug consumeSession could have: the old token is not marked used
consumeSessionNoMark(S, U, n, refreshToken, t) ==
    IF refreshToken \notin DOMAIN S THEN Store(S, U, n, Null)
    ELSE IF S[refreshToken].expiresAt < t
         THEN Store(MapDelete(S, refreshToken), U, n, Null)
    ELSE IF S[refreshToken].used THEN Store(S, U, n, Null)
    ELSE LET session == S[refreshToken]
             c == createSession(S, U, n, session.userId, session.moltbookApiKey, t)
         IN  Store(c.sessions, c.userSessions, c.nextId,
                   [moltbookApiKey |-> session.moltbookApiKey,
                    userId |-> session.userId,
                    newRefreshToken |-> c.result])

\* a bug consumeSession could have: no expiry check
consumeSessionNoExpiry(S, U, n, refreshToken, t) ==
    IF refreshToken \notin DOMAIN S THEN Store(S, U, n, Null)
    ELSE IF S[refreshToken].used THEN Store(S, U, n, Null)
    ELSE LET session == S[refreshToken]
             S1 == [S EXCEPT ![refreshToken].used = TRUE]
             c == createSession(S1, U, n, session.userId, session.moltbookApiKey, t)
         IN  Store(c.sessions, c.userSessions, c.nextId,
                   [moltbookApiKey |-> session.moltbookApiKey,
                    userId |-> session.userId,
                    newRefreshToken |-> c.result])

\* a bug consumeSession could have: the successor inherits the old expiry
consumeSessionInherit(S, U, n, refreshToken, t) ==
    IF refreshToken \notin DOMAIN S THEN Store(S, U, n, Null)
    ELSE IF S[refreshToken].expiresAt < t
         THEN Store(MapDelete(S, refreshToken), U, n, Null)
    ELSE IF S[refreshToken].used THEN Store(S, U, n, Null)
    ELSE LET session == S[refreshToken]
             S1 == [S EXCEPT ![refreshToken].used = TRUE]
             c == createSession(S1, U, n, session.userId, session.moltbookApiKey, t)
         IN  Store([c.sessions EXCEPT ![c.result].expiresAt = session.expiresAt],
                   c.userSessions, c.nextId,
                   [moltbookApiKey |-> session.moltbookApiKey,
                    userId |-> session.userId,
                    newRefreshToken |-> c.result])

\* consumeSession(refreshToken) called at time t
consumeSession(S, U, n, refreshToken, t) ==
    IF refreshToken \notin DOMAIN S THEN Store(S, U, n, Null)
    ELSE IF S[refreshToken].expiresAt < t
         THEN Store(MapDelete(S, refreshToken), U, n, Null)
    ELSE IF S[refreshToken].used THEN Store(S, U, n, Null)
    ELSE LET session == S[refreshToken]
             S1 == [S EXCEPT ![refreshToken].used = TRUE]
             c == createSession(S1, U, n, session.userId, session.moltbookApiKey, t)
         IN  Store(c.sessions, c.userSessions, c.nextId,
                   [moltbookApiKey |-> session.moltbookApiKey,
                    userId |-> session.userId,
                    newRefreshToken |-> c.result])

\* a bug the loop of getMoltbookKey could have: the used flag is not looked at
FirstValidIgnoreUsed(S, ids, t) ==
    LET ok(i) == /\ ids[i] \in DOMAIN S
                 /\ S[ids[i]].expiresAt > t
        hits == {i \in 1..Len(ids) : ok(i)}
    IN  IF hits = {} THEN 0
        ELSE ids[CHOOSE i \in hits : \A j \in hits : i <= j]

\* the loop of getMoltbookKey: the first id of the user's Set, in insertion
\* order, whose session is present, unused and expires after t; 0 if none
FirstValid(S, ids, t) ==
    LET ok(i) == /\ ids[i] \in DOMAIN S
                 /\ ~S[ids[i]].used
                 /\ S[ids[i]].expiresAt > t
        hits == {i \in 1..Len(ids) : ok(i)}
    IN  IF hits = {} THEN 0
        ELSE ids[CHOOSE i \in hits : \A j \in hits : i <= j]

\* getMoltbookKey(userId) called at time t: the key, or "null"
getMoltbookKey(S, U, userId, t) ==
    IF userId \notin DOMAIN U THEN "null"
    ELSE LET id == FirstValid(S, U[userId], t)
         IN  IF id = 0 THEN "null" ELSE S[id].moltbookApiKey

\* a bug invalidateUser could have: only the index is dropped
invalidateUserIndexOnly(S, U, n, userId) ==
    IF userId \notin DOMAIN U THEN Store(S, U, n, Null)
    ELSE Store(S, MapDelete(U, userId), n, Null)

\* a bug invalidateUser could have: every user's sessions are dropped
invalidateUserEveryone(S, U, n, userId) ==
    IF userId \notin DOMAIN U THEN Store(S, U, n, Null)
    ELSE Store(<< >>, << >>, n, Null)

\* invalidateUser(userId)
invalidateUser(S, U, n, userId) ==
    IF userId \notin DOMAIN U THEN Store(S, U, n, Null)
    ELSE LET ids == SetOf(U[userId])
         IN  Store([k \in DOMAIN S \ ids |-> S[k]], MapDelete(U, userId), n, Null)

\* a bug pruneExpired could have: an entry is swept at the instant it expires,
\* while consumeSession still accepts it
pruneExpiredInclusive(S, U, n, t) ==
    LET dead == {id \in DOMAIN S : S[id].expiresAt <= t \/ S[id].used}
    IN  Store([k \in DOMAIN S \ dead |-> S[k]],
              [u \in DOMAIN U |->
                  SelectSeq(U[u], LAMBDA x : ~(x \in dead /\ S[x].userId = u))],
              n, Null)

\* pruneExpired() run at time t
pruneExpired(S, U, n, t) ==
    LET dead == {id \in DOMAIN S : S[id].expiresAt < t \/ S[id].used}
    IN  Store([k \in DOMAIN S \ dead |-> S[k]],
              [u \in DOMAIN U |->
                  SelectSeq(U[u], LAMBDA x : ~(x \in dead /\ S[x].userId = u))],
              n, Null)

----------------------------------------------------------------------------
(* History kept beside the store *)

Pre(S, id) == IF id \in DOMAIN S THEN S[id] ELSE Null

Call(op, arg, pre, ret) == [op |-> op, arg |-> arg, pre |-> pre, ret |-> ret]

Commit(r) ==
    /\ sessions' = r.sessions
    /\ userSessions' = r.userSessions
    /\ nextId' = r.nextId

\* identifiers created by this step are recorded with their owner
Issue(r) ==
    issuedTo' = [id \in 1..(r.nextId - 1) |->
                    IF id \in DOMAIN issuedTo THEN issuedTo[id] ELSE r.sessions[id].userId]

\* the identifiers in the table are recorded with their chain; one created by
\* this step has that of the identifier consumed (parent), or its own when
\* createSession was called by login (parent = 0)
Chain(r, parent) ==
    chainOf' = [id \in DOMAIN r.sessions |->
                   IF id \in DOMAIN chainOf THEN chainOf[id]
                   ELSE IF parent = 0 THEN id ELSE chainOf[parent]]

----------------------------------------------------------------------------
(* The store's operations, one action each *)

\* what one createSession call does to the store and to the history
Create(userId, key) ==
    /\ nextId <= MaxSessions
    /\ LET r == createSession(sessions, userSessions, nextId, userId, key, now)
       IN  /\ Commit(r)
           /\ Issue(r)
           /\ Chain(r, 0)
           /\ last' = Call("createSession", userId, Null, [id |-> r.result])
    /\ cleared' = cleared \ {userId}
    /\ UNCHANGED <<now, okCount, revoked, envVars>>

CreateSession(userId, key) ==
    /\ Create(userId, key)
    /\ UNCHANGED <<cacheVars, refresh, gate, loginVars, jwt,
                   keyCalls, shadow>>

\* what one consumeSession call does to the store and to the history
Consume(id) ==
    LET r == consumeSession(sessions, userSessions, nextId, id, now)
    IN  /\ Commit(r)
        /\ Issue(r)
        /\ Chain(r, id)
        /\ last' = Call("consumeSession", id, Pre(sessions, id), r.result)
        /\ okCount' = IF r.result # Null THEN [okCount EXCEPT ![id] = @ + 1] ELSE okCount
        /\ cleared' = IF r.result # Null THEN cleared \ {r.result.userId} ELSE cleared
        /\ UNCHANGED <<now, revoked, envVars, cacheVars, gate, loginVars, jwt,
                   keyCalls, shadow>>

ConsumeSession(id) ==
    /\ consumeSession(sessions, userSessions, nextId, id, now).nextId <= MaxSessions + 1
    /\ Consume(id)
    /\ UNCHANGED refresh

GetMoltbookKey(userId) ==
    /\ last' = Call("getMoltbookKey", userId, Null,
                    [key |-> getMoltbookKey(sessions, userSessions, userId, now),
                     via |-> IF userId \in DOMAIN userSessions
                             THEN FirstValid(sessions, userSessions[userId], now)
                             ELSE 0])
    /\ UNCHANGED <<sessions, userSessions, nextId, now, okCount, issuedTo, revoked,
                   cleared, envVars, cacheVars, refresh, gate, loginVars, jwt,
                   keyCalls, shadow, chainOf>>

InvalidateUser(userId) ==
    /\ Commit(invalidateUser(sessions, userSessions, nextId, userId))
    /\ Chain(invalidateUser(sessions, userSessions, nextId, userId), 0)
    /\ last' = Call("invalidateUser", userId, Null, Null)
    /\ revoked' = revoked \cup {id \in DOMAIN issuedTo : issuedTo[id] = userId}
    /\ cleared' = cleared \cup {userId}
    /\ UNCHANGED <<now, okCount, issuedTo, envVars, cacheVars, refresh, gate, loginVars, jwt,
                   keyCalls, shadow>>

PruneExpired ==
    /\ Commit(pruneExpired(sessions, userSessions, nextId, now))
    /\ Chain(pruneExpired(sessions, userSessions, nextId, now), 0)
    /\ last' = Call("pruneExpired", 0, Null, Null)
    /\ UNCHANGED <<now, okCount, issuedTo, revoked, cleared, envVars, cacheVars, refresh, gate, loginVars, jwt,
                   keyCalls, shadow>>

(* The same calls made on the store and, with the same arguments at the same
   time, on a copy of it on which pruneExpired never runs. randomUUID() hands
   both the same identifier for the same call. *)

Shadowed(op, arg, real, copy) ==
    /\ Commit(real)
    /\ shadow' = copy
    /\ last' = Call(op, arg, Null, real.result)
    /\ UNCHANGED <<now, okCount, issuedTo, revoked, cleared, chainOf, envVars,
                   cacheVars, refresh, gate, loginVars, jwt, keyCalls>>

ShadowedCreateSession(userId, key) ==
    /\ nextId <= MaxSessions
    /\ shadow.nextId <= MaxSessions
    /\ Shadowed("createSession", userId,
                createSession(sessions, userSessions, nextId, userId, key, now),
                createSession(shadow.sessions, shadow.userSessions, shadow.nextId,
                              userId, key, now))

ShadowedConsumeSession(id) ==
    LET real == consumeSession(sessions, userSessions, nextId, id, now)
        copy == consumeSession(shadow.sessions, shadow.userSessions, shadow.nextId, id, now)
    IN  /\ real.nextId <= MaxSessions + 1
        /\ copy.nextId <= MaxSessions + 1
        /\ Shadowed("consumeSession", id, real, copy)

ShadowedGetMoltbookKey(userId) ==
    Shadowed("getMoltbookKey", userId,
             Store(sessions, userSessions, nextId,
                   getMoltbookKey(sessions, userSessions, userId, now)),
             Store(shadow.sessions, shadow.userSessions, shadow.nextId,
                   getMoltbookKey(shadow.sessions, shadow.userSessions, userId, now)))

ShadowedInvalidateUser(userId) ==
    Shadowed("invalidateUser", userId,
             invalidateUser(sessions, userSessions, nextId, userId),
             invalidateUser(shadow.sessions, shadow.userSessions, shadow.nextId, userId))

\* the clock advances between calls, by SESSION_TTL_MS or by 1 ms more: that
\* puts an expiry after, at and before the time of a later call
Tick ==
    /\ now \div SESSION_TTL_MS < MaxTicks
    /\ \E d \in {SESSION_TTL_MS, SESSION_TTL_MS + 1} : now' = now + d
    /\ last' = Call("tick", 0, Null, Null)
    /\ UNCHANGED <<sessions, userSessions, nextId, okCount, issuedTo, revoked,
                   cleared, envVars, cacheVars, refresh, gate, loginVars, jwt,
                   keyCalls, shadow, chainOf>>

----------------------------------------------------------------------------
(* lib/auth/keys: the key cache. A call's outcome: whether it threw, and the
   cache it leaves *)

KeyEnvs == {"set", "unset", "garbled"}

\* getPrivateKey(): the cached key if there is one; a throw when the environment
\* value is missing (line 9) or importPKCS8 rejects what it decodes to (line 11);
\* otherwise the imported key, cached
getPrivateKey(cache, env) ==
    IF cache # "null" THEN [threw |-> FALSE, cache |-> cache]
    ELSE IF env = "unset" THEN [threw |-> TRUE, cache |-> cache]
    ELSE IF env = "garbled" THEN [threw |-> TRUE, cache |-> cache]
    ELSE [threw |-> FALSE, cache |-> "key"]

\* getPublicKey(): the same with JWT_PUBLIC_KEY and importSPKI
getPublicKey(cache, env) ==
    IF cache # "null" THEN [threw |-> FALSE, cache |-> cache]
    ELSE IF env = "unset" THEN [threw |-> TRUE, cache |-> cache]
    ELSE IF env = "garbled" THEN [threw |-> TRUE, cache |-> cache]
    ELSE [threw |-> FALSE, cache |-> "key"]

(* The same two functions, call by call. Each is async: a call runs lines 7-10
   (15-19) when it is made, up to the await of the import, and the assignment
   and the return (lines 11-12, 20-21) when the import settles; other calls run
   in between. Every import that succeeds makes a new key object; objects are
   numbered from 1, 0 is none. *)

KeyNames == {"private", "public"}

IdleKeyCall == [pc |-> "idle", which |-> "private", threw |-> FALSE, result |-> 0]

\* calls: the calls, by slot; reads: how many times the environment value was
\* read and handed to the import; assigns: how many times the cache variable was
\* assigned; cached: the object the cache variable holds; objects: the objects made
IdleKeyCalls ==
    [calls |-> [c \in 1..MaxKeyCalls |-> IdleKeyCall],
     reads |-> [w \in KeyNames |-> 0],
     assigns |-> [w \in KeyNames |-> 0],
     cached |-> [w \in KeyNames |-> 0],
     objects |-> 0]

CacheOf(w) == IF w = "private" THEN privateKey ELSE publicKey
EnvOf(w) == IF w = "private" THEN privateKeyEnv ELSE publicKeyEnv

\* lines 7-10 (16-19) and the call of the import in line 11 (20)
KeyCallStart(c, w) ==
    /\ keyCalls.calls[c].pc = "idle"
    /\ keyCalls' =
          IF CacheOf(w) # "null"
          THEN [keyCalls EXCEPT !.calls[c] = [pc |-> "done", which |-> w, threw |-> FALSE,
                                              result |-> keyCalls.cached[w]]]
          ELSE IF EnvOf(w) = "unset"
          THEN [keyCalls EXCEPT !.calls[c] = [pc |-> "done", which |-> w, threw |-> TRUE,
                                              result |-> 0]]
          ELSE [keyCalls EXCEPT !.calls[c] = [pc |-> "import", which |-> w, threw |-> FALSE,
                                              result |-> 0],
                                !.reads[w] = @ + 1]
    /\ UNCHANGED <<sessions, userSessions, nextId, now, last, okCount, issuedTo,
                   revoked, cleared, envVars, cacheVars, refresh, gate, loginVars, jwt,
                   shadow, chainOf>>

\* the import settles: a rejection leaves the function (line 11, 20); otherwise
\* the cache variable is assigned the new object, which is returned (lines 11-12)
KeyCallSettle(c) ==
    /\ keyCalls.calls[c].pc = "import"
    /\ LET w == keyCalls.calls[c].which
           o == keyCalls.objects + 1
       IN  IF EnvOf(w) = "garbled"
           THEN /\ keyCalls' = [keyCalls EXCEPT !.calls[c].pc = "done",
                                                !.calls[c].threw = TRUE]
                /\ UNCHANGED cacheVars
           ELSE /\ keyCalls' = [keyCalls EXCEPT !.calls[c].pc = "done",
                                                !.calls[c].result = o,
                                                !.assigns[w] = @ + 1,
                                                !.cached[w] = o,
                                                !.objects = o]
                /\ privateKey' = IF w = "private" THEN "key" ELSE privateKey
                /\ publicKey' = IF w = "public" THEN "key" ELSE publicKey
    /\ UNCHANGED <<sessions, userSessions, nextId, now, last, okCount, issuedTo,
                   revoked, cleared, envVars, refresh, gate, loginVars, jwt,
                   shadow, chainOf>>

----------------------------------------------------------------------------
(* lib/auth/jwt: the access token and its verification *)

JWT_ISSUER == "moltbook-frontend"
JWT_AUDIENCE == "moltbook-api"

\* a compact JWS. sig: "valid" when made with the configured private key over
\* exactly this header and payload. exp is in seconds.
Jwt(sub, role, permissions, iss, aud, exp, alg, sig) ==
    [sub |-> sub, role |-> role, permissions |-> permissions, iss |-> iss,
     aud |-> aud, exp |-> exp, alg |-> alg, sig |-> sig]

\* a string that is no JWS
Garbage == [garbage |-> TRUE]

\* '15m' of setExpirationTime, in seconds
ACCESS_TOKEN_TTL_S == 15 * 60

\* a signer that leaves the audience claim out
signAccessTokenNoAudience(payload, t) ==
    Jwt(payload.sub, payload.role, payload.permissions, JWT_ISSUER, "",
        t \div 1000 + ACCESS_TOKEN_TTL_S, "RS256", "valid")

\* a signer that writes the role of the refresh endpoint's tokens
signAccessTokenAgentRole(payload, t) ==
    Jwt(payload.sub, "agent", payload.permissions, JWT_ISSUER, JWT_AUDIENCE,
        t \div 1000 + ACCESS_TOKEN_TTL_S, "RS256", "valid")

\* new SignJWT({role, permissions}).setProtectedHeader({alg: 'RS256'})
\* .setSubject(sub).setIssuedAt().setExpirationTime('15m').setIssuer(issuer)
\* .setAudience(audience).sign(privateKey) at time t (ms), the private key in
\* hand: iat is t in whole seconds and exp is iat + 900. (iat is not kept in the
\* record: jwtVerify does not read it.)
signAccessToken(payload, t) ==
    Jwt(payload.sub, payload.role, payload.permissions, JWT_ISSUER, JWT_AUDIENCE,
        t \div 1000 + ACCESS_TOKEN_TTL_S, "RS256", "valid")

\* the payload verifyAccessToken resolves to
PayloadOf(token) ==
    [sub |-> token.sub, role |-> token.role, permissions |-> token.permissions]

\* jwtVerify(token, publicKey, {algorithms: ['RS256'], issuer, audience}) at
\* time t (ms): TRUE when it resolves, FALSE when it throws
verifyAccessToken(token, t) ==
    /\ token # Garbage
    /\ token.alg = "RS256"
    /\ token.sig = "valid"
    /\ token.iss = JWT_ISSUER
    /\ token.aud = JWT_AUDIENCE
    /\ token.exp > t \div 1000

----------------------------------------------------------------------------
(* api/auth/refresh: POST, cut at its one await *)

NoToken == [none |-> TRUE]

\* a request not yet received. cookie: the refresh_token cookie, 0 when absent;
\* userId, newRefreshToken: the handler's locals across the await;
\* fresh, raced: history (the cookie's session was present, unexpired and unused
\* when consumeSession ran; another request with the same cookie was then
\* waiting for its signature)
IdleRequest ==
    [pc |-> "idle", cookie |-> 0, userId |-> "", newRefreshToken |-> 0,
     status |-> 0, accessToken |-> NoToken, setCookie |-> 0,
     fresh |-> FALSE, raced |-> FALSE]

\* api/auth/login, line 116, the only caller of createSession besides
\* consumeSession: a login whose key the backend accepted creates the session of
\* the agent the backend named
LoginCreateSession(apiKey) == CreateSession(AgentOf(apiKey), apiKey)

\* the refresh endpoint is followed for one agent's logins: the handler reads no
\* entry but the one its cookie names
RefreshKeys == {"mk_a"}

\* requests are numbered in their order of arrival
NextToArrive(r) ==
    /\ refresh[r].pc = "idle"
    /\ \A q \in DOMAIN refresh : q < r => refresh[q].pc # "idle"

\* lines 7-10: no cookie, 401, before any store call
RefreshNoCookie(r) ==
    /\ NextToArrive(r)
    /\ refresh' = [refresh EXCEPT ![r] = [@ EXCEPT !.pc = "done", !.status = 401]]
    /\ last' = Call("refresh", 0, Null, Null)
    /\ UNCHANGED <<sessions, userSessions, nextId, now, okCount, issuedTo, revoked,
                   cleared, envVars, cacheVars, gate, loginVars, jwt,
                   keyCalls, shadow, chainOf>>

\* lines 7-18: the cookie is read and consumeSession runs; null is answered 401,
\* otherwise the handler awaits signAccessToken
RefreshConsume(r, cookie) ==
    /\ NextToArrive(r)
    /\ LET c == consumeSession(sessions, userSessions, nextId, cookie, now)
       IN  /\ c.nextId <= MaxSessions + 1
           /\ Consume(cookie)
           /\ refresh' = [refresh EXCEPT ![r] =
                 IF c.result = Null
                 THEN [@ EXCEPT !.pc = "done", !.cookie = cookie, !.status = 401,
                                !.fresh = Live(sessions, cookie, now),
                                !.raced = \E q \in DOMAIN refresh :
                                    refresh[q].pc = "signing" /\ refresh[q].cookie = cookie]
                 ELSE [@ EXCEPT !.pc = "signing", !.cookie = cookie,
                                !.userId = c.result.userId,
                                !.newRefreshToken = c.result.newRefreshToken,
                                !.fresh = Live(sessions, cookie, now)]]

\* lines 18-35: signAccessToken settles. It throws when the private key cannot be
\* had (caught: 500); otherwise 200 with the token and the rotated cookie
RefreshSigned(r) ==
    /\ refresh[r].pc = "signing"
    /\ LET k == getPrivateKey(privateKey, privateKeyEnv)
       IN  /\ privateKey' = k.cache
           /\ refresh' = [refresh EXCEPT ![r] =
                 IF ~k.threw
                 THEN [@ EXCEPT !.pc = "done", !.status = 200,
                                !.accessToken =
                                    signAccessToken([sub |-> refresh[r].userId,
                                                     role |-> "agent",
                                                     permissions |-> {"read", "write"}],
                                                    now),
                                !.setCookie = refresh[r].newRefreshToken]
                 ELSE [@ EXCEPT !.pc = "done", !.status = 500]]
    /\ last' = Call("refresh", 0, Null, Null)
    /\ UNCHANGED <<sessions, userSessions, nextId, now, okCount, issuedTo, revoked,
                   cleared, envVars, publicKey, gate, loginVars, jwt,
                   keyCalls, shadow, chainOf>>

----------------------------------------------------------------------------
(* lib/auth/roles *)

ROLE_PERMISSIONS ==
    [admin |-> {"read", "write", "delete", "admin"}, agent |-> {"read", "write"}]

\* A pathname is the sequence of its pieces: "/", ".", and the words between
\* them. "/api/posts/a.b" is <<"/", "api", "/", "posts", "/", "a", ".", "b">>.
StartsWith(path, prefix) ==
    /\ Len(path) >= Len(prefix)
    /\ SubSeq(path, 1, Len(prefix)) = prefix

\* /^\/api\//
MatchesApi(path) == StartsWith(path, <<"/", "api", "/">>)

\* /^\/api\/agents/
MatchesApiAgents(path) == StartsWith(path, <<"/", "api", "/", "agents">>)

\* /^\/api\/posts\/[^/]+\/(upvote|downvote)/
MatchesVote(path) ==
    /\ StartsWith(path, <<"/", "api", "/", "posts", "/">>)
    /\ \E k \in 1..Len(path) :
          /\ 5 + k + 2 <= Len(path)
          /\ \A i \in 6..(5 + k) : path[i] # "/"
          /\ path[5 + k + 1] = "/"
          /\ path[5 + k + 2] \in {"upvote", "downvote"}

ROUTE_PERMISSIONS ==
    << [method |-> "DELETE", pattern |-> "api",    requires |-> "delete"],
       [method |-> "PATCH",  pattern |-> "agents", requires |-> "write"],
       [method |-> "POST",   pattern |-> "vote",   requires |-> "write"] >>

\* rule.pattern.test(pathname)
PatternTest(pattern, path) ==
    CASE pattern = "api"    -> MatchesApi(path)
      [] pattern = "agents" -> MatchesApiAgents(path)
      [] pattern = "vote"   -> MatchesVote(path)

\* a resolver that takes the first rule whose pattern matches, whatever its method
getRequiredPermissionAnyMethod(method, pathname) ==
    LET hits == {i \in 1..Len(ROUTE_PERMISSIONS) :
                    PatternTest(ROUTE_PERMISSIONS[i].pattern, pathname)}
    IN  IF hits # {}
        THEN ROUTE_PERMISSIONS[CHOOSE i \in hits : \A j \in hits : i <= j].requires
        ELSE IF method = "GET" \/ method = "HEAD" THEN "read" ELSE "write"

getRequiredPermission(method, pathname) ==
    LET hits == {i \in 1..Len(ROUTE_PERMISSIONS) :
                    /\ ROUTE_PERMISSIONS[i].method = method
                    /\ PatternTest(ROUTE_PERMISSIONS[i].pattern, pathname)}
    IN  IF hits # {}
        THEN ROUTE_PERMISSIONS[CHOOSE i \in hits : \A j \in hits : i <= j].requires
        ELSE IF method = "GET" \/ method = "HEAD" THEN "read" ELSE "write"

----------------------------------------------------------------------------
(* middleware: the Authorization Gate, one request at a time *)

PUBLIC_API_ROUTES ==
    { [method |-> "GET",  path |-> <<"/", "api", "/", "health">>],
      [method |-> "POST", path |-> <<"/", "api", "/", "auth", "/", "login">>],
      [method |-> "POST", path |-> <<"/", "api", "/", "auth", "/", "refresh">>] }

isPublicApiRoute(request) ==
    \E r \in PUBLIC_API_ROUTES : r.path = request.path /\ r.method = request.method

\* config.matcher: '/((?!_next/static|_next/image|favicon.ico|.*\\..*).*)'.
\* The middleware runs for a pathname when what follows its first "/" neither
\* starts with _next/static, _next/image or favicon<any char>ico nor holds a dot.
Matcher(path) ==
    /\ Len(path) >= 1 /\ path[1] = "/"
    /\ LET rest == SubSeq(path, 2, Len(path))
       IN  /\ ~StartsWith(rest, <<"_next", "/", "static">>)
           /\ ~StartsWith(rest, <<"_next", "/", "image">>)
           /\ ~(Len(rest) >= 3 /\ rest[1] = "favicon" /\ rest[3] = "ico")
           /\ ~\E i \in 1..Len(rest) : rest[i] = "."

\* authHeader?.startsWith('Bearer ') ? authHeader.slice(7) : null. A header is
\* absent ("none") or a scheme word, a space and what follows it.
NoBearer == [absent |-> TRUE]
EmptyString == [empty |-> TRUE]

BearerToken(authorization) ==
    IF authorization = NoBearer THEN NoBearer
    ELSE IF authorization.scheme = "Bearer" THEN authorization.rest
    ELSE NoBearer

\* !token
TokenMissing(token) == token = NoBearer \/ token = EmptyString

NoRequest == [method |-> "", path |-> << >>, authorization |-> NoBearer, xUserId |-> ""]

\* body: the response body's error member, "" when the gate sent no response;
\* at: the time of the gate's last step
IdleGate ==
    [pc |-> "idle", req |-> NoRequest, status |-> 0, body |-> [error |-> ""],
     ran |-> {}, xUserId |-> "", xUserRole |-> "", securityHeaders |-> FALSE,
     at |-> 0]

\* a forbidden() that tells the client the permission it logs
forbiddenWithReason(requiredPermission) ==
    [status |-> 403, body |-> [error |-> requiredPermission]]

\* forbidden(ip, pathname, method, userId, role, requiredPermission): its
\* arguments go to the log, the response holds none of them
forbidden(requiredPermission) == [status |-> 403, body |-> [error |-> "Forbidden"]]

\* new NextResponse(JSON.stringify({ error: 'Unauthorized' }), { status: 401, ... }),
\* built alike at lines 318-322 and 345-349
Unauthorized == [status |-> 401, body |-> [error |-> "Unauthorized"]]

\* the requests followed
Methods == {"GET", "HEAD", "OPTIONS", "POST", "PUT", "PATCH", "DELETE"}

Paths ==
    { <<"/">>,
      <<"/", "m", "/", "general">>,
      <<"/", "favicon", ".", "ico">>,
      <<"/", "_next", "/", "static", "/", "chunk">>,
      <<"/", "api">>,
      <<"/", "api", "/", "health">>,
      <<"/", "api", "/", "health", "/">>,
      <<"/", "api", "/", "auth", "/", "login">>,
      <<"/", "api", "/", "auth", "/", "refresh">>,
      <<"/", "api", "/", "posts">>,
      <<"/", "api", "/", "posts", "/", "123">>,
      <<"/", "api", "/", "posts", "/", "a", ".", "b">>,
      <<"/", "api", "/", "posts", "/", "123", "/", "upvote">>,
      <<"/", "api", "/", "agents">>,
      <<"/", "api", "/", "agents", "/", "me">> }

PermissionLists ==
    { {}, {"read"}, {"read", "write"}, {"read", "write", "delete", "admin"} }

RoleOf(permissions) == IF "admin" \in permissions THEN "admin" ELSE "agent"

\* tokens signed by this server's key, live or expired, and tokens that are not
SignedTokens ==
    { Jwt("alice", RoleOf(p), p, JWT_ISSUER, JWT_AUDIENCE, exp, "RS256", "valid") :
        p \in PermissionLists, exp \in {0, 900} }

BadTokens ==
    { Garbage,
      Jwt("alice", "admin", ROLE_PERMISSIONS.admin, JWT_ISSUER, JWT_AUDIENCE, 900, "RS256", "forged"),
      Jwt("alice", "admin", ROLE_PERMISSIONS.admin, JWT_ISSUER, JWT_AUDIENCE, 900, "HS256", "valid"),
      Jwt("alice", "admin", ROLE_PERMISSIONS.admin, "other-issuer", JWT_AUDIENCE, 900, "RS256", "valid"),
      Jwt("alice", "admin", ROLE_PERMISSIONS.admin, JWT_ISSUER, "other-api", 900, "RS256", "valid") }

AuthorizationHeaders ==
    {NoBearer}
    \cup {[scheme |-> "Basic", rest |-> Garbage], [scheme |-> "bearer", rest |-> Garbage]}
    \cup {[scheme |-> "Bearer", rest |-> t] : t \in {EmptyString} \cup SignedTokens \cup BadTokens}

\* xUserId: the x-user-id header the client sent, "" when it sent none
Requests ==
    [method : Methods, path : Paths, authorization : AuthorizationHeaders,
     xUserId : {"", "bob"}]

\* a request arrives
Receive(request) ==
    /\ gate.pc = "idle"
    /\ gate' = [IdleGate EXCEPT !.pc = "matcher", !.req = request,
                                !.xUserId = request.xUserId]
    /\ UNCHANGED <<sessions, userSessions, nextId, now, last, okCount, issuedTo,
                   revoked, cleared, envVars, cacheVars, refresh, loginVars, jwt,
                   keyCalls, shadow, chainOf>>

\* config.matcher decides whether the middleware runs; when it does not, the
\* request goes to its route handler as the client sent it
Dispatch ==
    /\ gate.pc = "matcher"
    /\ gate' = IF Matcher(gate.req.path)
               THEN [gate EXCEPT !.pc = "middleware", !.at = now]
               ELSE [gate EXCEPT !.pc = "handler", !.at = now]
    /\ UNCHANGED <<sessions, userSessions, nextId, now, last, okCount, issuedTo,
                   revoked, cleared, envVars, cacheVars, refresh, loginVars, jwt,
                   keyCalls, shadow, chainOf>>

\* middleware, lines 299-326: up to its await
MiddlewareEnter ==
    /\ gate.pc = "middleware"
    /\ LET request == gate.req
           token == BearerToken(request.authorization)
       IN  gate' =
             IF ~MatchesApi(request.path) \/ isPublicApiRoute(request)
             THEN [gate EXCEPT !.pc = "handler", !.securityHeaders = TRUE,
                               !.at = now]
             ELSE IF TokenMissing(token)
             THEN [gate EXCEPT !.pc = "responded", !.status = Unauthorized.status,
                               !.body = Unauthorized.body,
                               !.ran = {"extract"}, !.at = now]
             ELSE [gate EXCEPT !.pc = "verifying", !.ran = {"extract"}, !.at = now]
    /\ UNCHANGED <<sessions, userSessions, nextId, now, last, okCount, issuedTo,
                   revoked, cleared, envVars, cacheVars, refresh, loginVars, jwt,
                   keyCalls, shadow, chainOf>>

\* middleware, lines 326-350: verifyAccessToken settles. It throws when
\* getPublicKey or jwtVerify does; the catch answers 401 either way
MiddlewareVerified ==
    /\ gate.pc = "verifying"
    /\ LET request == gate.req
           token == BearerToken(request.authorization)
           k == getPublicKey(publicKey, publicKeyEnv)
           required == getRequiredPermission(request.method, request.path)
       IN  /\ publicKey' = k.cache
           /\ gate' =
                 IF k.threw \/ ~verifyAccessToken(token, now)
                 THEN [gate EXCEPT !.pc = "responded",
                                   !.status = Unauthorized.status,
                                   !.body = Unauthorized.body,
                                   !.ran = @ \cup {"verify"}, !.at = now]
                 ELSE IF required \notin token.permissions
                 THEN [gate EXCEPT !.pc = "responded",
                                   !.status = forbidden(required).status,
                                   !.body = forbidden(required).body,
                                   !.ran = @ \cup {"verify", "permission"}, !.at = now]
                 ELSE [gate EXCEPT !.pc = "handler", !.securityHeaders = TRUE,
                                   !.ran = @ \cup {"verify", "permission"},
                                   !.xUserId = token.sub, !.xUserRole = token.role,
                                   !.at = now]
    /\ UNCHANGED <<sessions, userSessions, nextId, now, last, okCount, issuedTo,
                   revoked, cleared, envVars, privateKey, refresh, loginVars, jwt,
                   keyCalls, shadow, chainOf>>

----------------------------------------------------------------------------
(* api/auth/login: the rate limiter and POST, cut at its awaits *)

RATE_WINDOW_MS == 15 * 60 * 1000
RATE_LIMIT == 10

\* a limiter that refuses only once the count has gone past the limit
checkRateLimitOffByOne(A, ip, t) ==
    IF ip \notin DOMAIN A \/ t - A[ip].windowStart > RATE_WINDOW_MS
    THEN [attempts |-> [i \in DOMAIN A \cup {ip} |->
                          IF i = ip THEN [count |-> 1, windowStart |-> t] ELSE A[i]],
          ok |-> TRUE]
    ELSE IF A[ip].count > RATE_LIMIT THEN [attempts |-> A, ok |-> FALSE]
    ELSE [attempts |-> [A EXCEPT ![ip].count = @ + 1], ok |-> TRUE]

\* a limiter that goes on counting the attempts it refuses
checkRateLimitCountsRefused(A, ip, t) ==
    IF ip \notin DOMAIN A \/ t - A[ip].windowStart > RATE_WINDOW_MS
    THEN [attempts |-> [i \in DOMAIN A \cup {ip} |->
                          IF i = ip THEN [count |-> 1, windowStart |-> t] ELSE A[i]],
          ok |-> TRUE]
    ELSE IF A[ip].count >= RATE_LIMIT
    THEN [attempts |-> [A EXCEPT ![ip].count = @ + 1], ok |-> FALSE]
    ELSE [attempts |-> [A EXCEPT ![ip].count = @ + 1], ok |-> TRUE]

\* checkRateLimit(ip) at time t on the map A: the map it leaves, what it returns
checkRateLimit(A, ip, t) ==
    IF ip \notin DOMAIN A \/ t - A[ip].windowStart > RATE_WINDOW_MS
    THEN [attempts |-> [i \in DOMAIN A \cup {ip} |->
                          IF i = ip THEN [count |-> 1, windowStart |-> t] ELSE A[i]],
          ok |-> TRUE]
    ELSE IF A[ip].count >= RATE_LIMIT THEN [attempts |-> A, ok |-> FALSE]
    ELSE [attempts |-> [A EXCEPT ![ip].count = @ + 1], ok |-> TRUE]

\* the x-forwarded-for header: the addresses it lists, none when it is absent
ForwardedFor == { << >>, <<"203.0.113.7", "198.51.100.2">> }

\* request.headers.get('x-forwarded-for')?.split(',')[0].trim() ?? 'unknown'
ClientIp(forwardedFor) ==
    IF forwardedFor = << >> THEN "unknown" ELSE forwardedFor[1]

Ips == {ClientIp(h) : h \in ForwardedFor}

\* the request body: one loginSchema rejects, or an API key
InvalidBody == [invalid |-> TRUE]
LoginBody(apiKey) == [apiKey |-> apiKey]

\* process.env.ADMIN_USER_IDS, split and trimmed
ADMIN_USER_IDS == {"alice"}

\* a login not yet received. apiKey, userId, role, refreshToken: the handler's
\* locals across its awaits; signedAt: history, the time signAccessToken ran
IdleLogin ==
    [pc |-> "idle", ip |-> "", apiKey |-> "", userId |-> "", role |-> "",
     refreshToken |-> 0, status |-> 0, accessToken |-> NoToken, setCookie |-> 0,
     signedAt |-> 0]

\* history of the windows as the attempts define them: a window starts with the
\* first attempt ever or the first one made more than RATE_WINDOW_MS after the
\* start of the window before; n counts the attempts of the window, refused ones
\* included, and refused records that the address has been refused before
Tried(T, ip, t, ok) ==
    LET old == IF ip \in DOMAIN T THEN T[ip]
               ELSE [start |-> t, n |-> 0, refused |-> FALSE]
        new == IF ip \notin DOMAIN T \/ t - T[ip].start > RATE_WINDOW_MS
               THEN [start |-> t, n |-> 1, refused |-> old.refused]
               ELSE [start |-> old.start, n |-> old.n + 1,
                     refused |-> old.refused \/ ~ok]
    IN  [i \in DOMAIN T \cup {ip} |-> IF i = ip THEN new ELSE T[i]]

InWindow(w, t) == RATE_WINDOW_MS > t - w

\* history: the times of the passes of an address that lie less than
\* RATE_WINDOW_MS before its latest pass, that one included
Passed(P, ip, t) ==
    [P EXCEPT ![ip] = Append(SelectSeq(@, LAMBDA w : InWindow(w, t)), t)]

\* lines 80-97: the rate check (429), the body (400), then the backend is asked
LoginEnter(forwardedFor, body) ==
    /\ login.pc \in {"idle", "done"}
    /\ LET ip == ClientIp(forwardedFor)
           c == checkRateLimit(loginAttempts, ip, now)
       IN  /\ (ip \in DOMAIN tried /\ now - tried[ip].start <= RATE_WINDOW_MS) =>
                  tried[ip].n < RATE_LIMIT + MaxOver
           /\ loginAttempts' = c.attempts
           /\ tried' = Tried(tried, ip, now, c.ok)
           /\ passed' = IF c.ok THEN Passed(passed, ip, now) ELSE passed
           /\ login' =
                 IF ~c.ok
                 THEN [IdleLogin EXCEPT !.pc = "done", !.ip = ip, !.status = 429]
                 ELSE IF body = InvalidBody
                 THEN [IdleLogin EXCEPT !.pc = "done", !.ip = ip, !.status = 400]
                 ELSE [IdleLogin EXCEPT !.pc = "fetching", !.ip = ip,
                                        !.apiKey = body.apiKey]
    /\ UNCHANGED <<sessions, userSessions, nextId, now, last, okCount, issuedTo,
                   revoked, cleared, envVars, cacheVars, refresh, gate, jwt,
                   keyCalls, shadow, chainOf>>

\* lines 97-117: the backend's answer. Not reached or failing: 500; 401: 401;
\* otherwise the session is created and signAccessToken is awaited
LoginFetched(outcome) ==
    /\ login.pc = "fetching"
    /\ IF outcome = "unavailable" \/ login.apiKey \notin ApiKeys
       THEN /\ login' = [login EXCEPT !.pc = "done",
                            !.status = IF outcome = "unavailable" THEN 500 ELSE 401]
            /\ UNCHANGED <<sessions, userSessions, nextId, now, last, okCount,
                           issuedTo, revoked, cleared, envVars,
                   chainOf>>
       ELSE LET userId == AgentOf(login.apiKey)
            IN  /\ Create(userId, login.apiKey)
                /\ login' = [login EXCEPT !.pc = "signing", !.userId = userId,
                                !.role = IF userId \in ADMIN_USER_IDS
                                         THEN "admin" ELSE "agent",
                                !.refreshToken = nextId]
    /\ UNCHANGED <<cacheVars, refresh, gate, loginAttempts, tried, passed, jwt,
                   keyCalls, shadow>>

\* lines 117-130: signAccessToken settles. A throw is caught: 500; otherwise 200
\* with the token and the refresh cookie
LoginSigned ==
    /\ login.pc = "signing"
    /\ LET k == getPrivateKey(privateKey, privateKeyEnv)
       IN  /\ privateKey' = k.cache
           /\ login' =
                 IF k.threw
                 THEN [login EXCEPT !.pc = "done", !.status = 500]
                 ELSE [login EXCEPT !.pc = "done", !.status = 200,
                          !.accessToken =
                              signAccessToken([sub |-> login.userId,
                                               role |-> login.role,
                                               permissions |-> ROLE_PERMISSIONS[login.role]],
                                              now),
                          !.setCookie = login.refreshToken,
                          !.signedAt = now]
    /\ UNCHANGED <<sessions, userSessions, nextId, now, last, okCount, issuedTo,
                   revoked, cleared, envVars, publicKey, refresh, gate,
                   loginAttempts, tried, passed, jwt,
                   keyCalls, shadow, chainOf>>

----------------------------------------------------------------------------
(* lib/auth/jwt called directly: one token signed, then verified *)

Rejected == [rejected |-> TRUE]

IdleJwt ==
    [pc |-> "idle", payload |-> [sub |-> "", role |-> "", permissions |-> {}],
     token |-> NoToken, signedAt |-> 0, result |-> NoToken, verifiedAt |-> 0]

Payloads == [sub : Users, role : {"agent", "user", "admin"}, permissions : PermissionLists]

SignAccessToken(payload) ==
    /\ jwt.pc = "idle"
    /\ LET k == getPrivateKey(privateKey, privateKeyEnv)
       IN  /\ privateKey' = k.cache
           /\ jwt' = IF k.threw
                     THEN [jwt EXCEPT !.pc = "failed", !.payload = payload]
                     ELSE [jwt EXCEPT !.pc = "signed", !.payload = payload,
                                      !.token = signAccessToken(payload, now),
                                      !.signedAt = now]
    /\ UNCHANGED <<sessions, userSessions, nextId, now, last, okCount, issuedTo,
                   revoked, cleared, envVars, publicKey, refresh, gate, loginVars,
                   keyCalls, shadow, chainOf>>

VerifyAccessToken ==
    /\ jwt.pc \in {"signed", "verified"}
    /\ LET k == getPublicKey(publicKey, publicKeyEnv)
       IN  /\ publicKey' = k.cache
           /\ jwt' = [jwt EXCEPT !.pc = "verified", !.verifiedAt = now,
                         !.result = IF k.threw \/ ~verifyAccessToken(jwt.token, now)
                                    THEN Rejected
                                    ELSE PayloadOf(jwt.token)]
    /\ UNCHANGED <<sessions, userSessions, nextId, now, last, okCount, issuedTo,
                   revoked, cleared, envVars, privateKey, refresh, gate, loginVars,
                   keyCalls, shadow, chainOf>>

----------------------------------------------------------------------------
(* The short clock: Date.now() between the steps of the handlers *)

\* the clock moves on to a later instant: a whole number of quarter-hours plus
\* one of the offsets (ms). Offset 1 puts a rate window's end at and just before
\* an attempt; offset 999 tells the clock's milliseconds from a token's seconds.
Elapse(offsets) ==
    /\ \E q \in 0..MaxQuarters, e \in offsets :
          /\ q * RATE_WINDOW_MS + e > now
          /\ now' = q * RATE_WINDOW_MS + e
    /\ last' = Call("tick", 0, Null, Null)
    /\ UNCHANGED <<sessions, userSessions, nextId, okCount, issuedTo, revoked,
                   cleared, envVars, cacheVars, refresh, gate, loginVars, jwt,
                   keyCalls, shadow, chainOf>>

\* the requests the gate is sent beside a login: reads and deletes of a post,
\* by an id with and without a dot, bearing nothing, a string that is no token,
\* or a token the login or the refresh endpoint has returned
FlowTokens == {login.accessToken} \ {NoToken}

FlowRequests ==
    [method : {"GET", "DELETE"},
     path : { <<"/", "api", "/", "posts", "/", "123">>,
              <<"/", "api", "/", "posts", "/", "a", ".", "b">> },
     authorization : {[scheme |-> "Bearer", rest |-> t] : t \in FlowTokens},
     xUserId : {""}]

\* the deletes the gate is sent beside logins and refreshes: of a post, by an
\* id with and without a dot, bearing a token the login or the refresh endpoint
\* has returned
RoleTokens ==
    ({login.accessToken} \cup {refresh[r].accessToken : r \in DOMAIN refresh}) \ {NoToken}

RoleRequests ==
    [method : {"DELETE"},
     path : { <<"/", "api", "/", "posts", "/", "123">>,
              <<"/", "api", "/", "posts", "/", "a", ".", "b">> },
     authorization : {[scheme |-> "Bearer", rest |-> t] : t \in RoleTokens},
     xUserId : {""}]

----------------------------------------------------------------------------
(* Initial state: the module has just been loaded *)

InitStore ==
    /\ sessions = << >>
    /\ userSessions = << >>
    /\ nextId = 1
    /\ now = 0
    /\ last = [op |-> "init", arg |-> 0, pre |-> Null, ret |-> Null]
    /\ okCount = [id \in Ids |-> 0]
    /\ issuedTo = << >>
    /\ revoked = {}
    /\ cleared = {}
    /\ refresh = [r \in 1..MaxRefresh |-> IdleRequest]
    /\ gate = IdleGate
    /\ privateKey = "null"
    /\ publicKey = "null"
    /\ loginAttempts = << >>
    /\ tried = << >>
    /\ passed = [ip \in Ips |-> << >>]
    /\ login = IdleLogin
    /\ jwt = IdleJwt
    /\ keyCalls = IdleKeyCalls
    /\ shadow = Store(<< >>, << >>, 1, Null)
    /\ chainOf = << >>

\* the server runs with both keys configured
Init == InitStore /\ privateKeyEnv = "set" /\ publicKeyEnv = "set"

\* the refresh endpoint runs with JWT_PRIVATE_KEY set, missing or unparsable
InitRefresh == InitStore /\ privateKeyEnv \in KeyEnvs /\ publicKeyEnv = "set"

\* the server runs with each key set, missing or unparsable
InitKeys == InitStore /\ privateKeyEnv \in KeyEnvs /\ publicKeyEnv \in KeyEnvs

NextStore ==
    \/ \E k \in ApiKeys : LoginCreateSession(k)
    \/ \E id \in Ids : ConsumeSession(id)
    \/ \E u \in Users : GetMoltbookKey(u)
    \/ \E u \in Users : InvalidateUser(u)
    \/ PruneExpired
    \/ Tick

SpecStore == Init /\ [][NextStore]_vars

\* the store with a clock that outruns every session followed: sessions are
\* created only while the clock has a step left, and each step takes it past
\* the expiry of everything created before
Advance ==
    /\ now \div SESSION_TTL_MS < MaxTicks
    /\ now' = now + SESSION_TTL_MS + 1
    /\ last' = Call("tick", 0, Null, Null)
    /\ UNCHANGED <<sessions, userSessions, nextId, okCount, issuedTo, revoked,
                   cleared, envVars, cacheVars, refresh, gate, loginVars, jwt,
                   keyCalls, shadow, chainOf>>

\* time going on past the last expiry followed: every comparison of an
\* expiresAt with Date.now() stays as it is, so the clock's value is kept and
\* only the passing of time is recorded
Beyond ==
    /\ now \div SESSION_TTL_MS >= MaxTicks
    /\ last' = Call("tick", IF last.op = "tick" THEN 1 - last.arg ELSE 0, Null, Null)
    /\ UNCHANGED <<sessions, userSessions, nextId, now, okCount, issuedTo, revoked,
                   cleared, envVars, cacheVars, refresh, gate, loginVars, jwt,
                   keyCalls, shadow, chainOf>>

ClockRuns == Advance \/ Beyond

NextStoreFair ==
    \/ \E k \in ApiKeys : now \div SESSION_TTL_MS < MaxTicks /\ LoginCreateSession(k)
    \/ \E id \in Ids :
          /\ \/ now \div SESSION_TTL_MS < MaxTicks
             \/ consumeSession(sessions, userSessions, nextId, id, now).result = Null
          /\ ConsumeSession(id)
    \/ \E u \in Users : InvalidateUser(u)
    \/ PruneExpired
    \/ ClockRuns

\* the store's operations for two users, with the clock stepping past expiries
NextUsers ==
    \/ \E k \in ApiKeys : LoginCreateSession(k)
    \/ \E id \in Ids : ConsumeSession(id)
    \/ \E u \in Users : GetMoltbookKey(u)
    \/ \E u \in Users : InvalidateUser(u)
    \/ PruneExpired
    \/ Advance

SpecUsers == Init /\ [][NextUsers]_vars

\* Date.now() keeps advancing, and setInterval (line 26) keeps running the sweep
SpecStoreFair ==
    Init /\ [][NextStoreFair]_vars /\ WF_vars(ClockRuns) /\ WF_vars(PruneExpired)

\* the store beside its never-swept copy. The sessions are one agent's:
\* pruneExpired treats every user's index list alike
NextSweep ==
    \/ \E k \in RefreshKeys : ShadowedCreateSession(AgentOf(k), k)
    \/ \E id \in Ids : ShadowedConsumeSession(id)
    \/ \E u \in Users : ShadowedGetMoltbookKey(u)
    \/ \E u \in Users : ShadowedInvalidateUser(u)
    \/ PruneExpired
    \/ Tick

SpecSweep == Init /\ [][NextSweep]_vars

NextRefresh ==
    \/ \E k \in RefreshKeys : LoginCreateSession(k)
    \/ \E r \in 1..MaxRefresh : RefreshNoCookie(r)
    \/ \E r \in 1..MaxRefresh, c \in Ids : RefreshConsume(r, c)
    \/ \E r \in 1..MaxRefresh : RefreshSigned(r)
    \/ Tick

SpecRefresh == InitRefresh /\ [][NextRefresh]_vars

NextGate ==
    \/ \E request \in Requests : Receive(request)
    \/ Dispatch
    \/ MiddlewareEnter
    \/ MiddlewareVerified

SpecGate == Init /\ [][NextGate]_vars

\* the login endpoint under repeated attempts from one address whose credential
\* is refused
NextLimiter ==
    \/ \E b \in {InvalidBody, LoginBody("mk_none")} :
          LoginEnter(<<"203.0.113.7", "198.51.100.2">>, b)
    \/ \E o \in {"answer", "unavailable"} : LoginFetched(o)
    \/ Elapse({0, 1})

SpecLimiter == Init /\ [][NextLimiter]_vars

\* the login endpoint under attempts from two addresses, some of them with a
\* credential the backend accepts
NextLogins ==
    \/ \E f \in ForwardedFor, b \in {InvalidBody, LoginBody("mk_none"), LoginBody("mk_a")} :
          LoginEnter(f, b)
    \/ LoginFetched("answer")
    \/ LoginSigned

SpecLogins == Init /\ [][NextLogins]_vars

NextJwt ==
    \/ \E payload \in Payloads : SignAccessToken(payload)
    \/ VerifyAccessToken
    \/ Elapse({0, 999})

SpecJwt == InitKeys /\ [][NextJwt]_vars

\* one agent logs in once, calls the API and refreshes
NextFlow ==
    \/ \E k \in RefreshKeys : login.pc = "idle" /\ LoginEnter(<< >>, LoginBody(k))
    \/ LoginFetched("answer")
    \/ LoginSigned
    \/ \E r \in 1..MaxRefresh, c \in Ids : RefreshConsume(r, c)
    \/ \E r \in 1..MaxRefresh : RefreshSigned(r)
    \/ \E request \in FlowRequests : Receive(request)
    \/ Dispatch
    \/ MiddlewareEnter
    \/ MiddlewareVerified
    \/ Elapse({1})

SpecFlow == Init /\ [][NextFlow]_vars

\* an administrator and an agent log in, refresh, and send deletes
NextRoles ==
    \/ \E k \in ApiKeys : nextId <= MaxSessions /\ LoginEnter(<< >>, LoginBody(k))
    \/ LoginFetched("answer")
    \/ LoginSigned
    \/ \E r \in 1..MaxRefresh, c \in Ids : RefreshConsume(r, c)
    \/ \E r \in 1..MaxRefresh : RefreshSigned(r)
    \/ \E request \in RoleRequests : Receive(request)
    \/ Dispatch
    \/ MiddlewareEnter
    \/ MiddlewareVerified

SpecRoles == Init /\ [][NextRoles]_vars

\* the requests the gate is sent while the keys may be missing: a read bearing
\* the login's token or a string that is no token
KeyRequests ==
    [method : {"GET"},
     path : { <<"/", "api", "/", "posts", "/", "123">> },
     authorization : {[scheme |-> "Bearer", rest |-> t] : t \in FlowTokens \cup {Garbage}},
     xUserId : {""}]

\* login, refresh and the gate with each key set, missing or unparsable
NextKeys ==
    \/ \E k \in RefreshKeys : login.pc = "idle" /\ LoginEnter(<< >>, LoginBody(k))
    \/ LoginFetched("answer")
    \/ LoginSigned
    \/ \E r \in 1..MaxRefresh, c \in Ids : RefreshConsume(r, c)
    \/ \E r \in 1..MaxRefresh : RefreshSigned(r)
    \/ \E request \in KeyRequests : Receive(request)
    \/ Dispatch
    \/ MiddlewareEnter
    \/ MiddlewareVerified

SpecKeys == InitKeys /\ [][NextKeys]_vars

\* the key getters alone, called from anywhere, interleaved at their awaits
NextKeyCache ==
    \/ \E c \in 1..MaxKeyCalls, w \in KeyNames : KeyCallStart(c, w)
    \/ \E c \in 1..MaxKeyCalls : KeyCallSettle(c)

SpecKeyCache == InitKeys /\ [][NextKeyCache]_vars

----------------------------------------------------------------------------
(* The Session Store's claims, checked under SpecStore *)

Consumed(id) == consumeSession(sessions, userSessions, nextId, id, now)
KeyOf(userId) == getMoltbookKey(sessions, userSessions, userId, now)

\* C1: for every identifier, at most one consumeSession call on it ever returns
\* a result, and once one has, a further consumeSession call on it returns null
\* in every state that follows, the very next one included.
C1_ConsumedOnce ==
    \A id \in Ids :
        /\ okCount[id] <= 1
        /\ okCount[id] = 1 => Consumed(id).result = Null

\* a consumed identifier, still in the table and not expired, was presented
\* again and refused
C1_Witness ==
    /\ last.op = "consumeSession"
    /\ last.ret = Null
    /\ okCount[last.arg] = 1
    /\ last.pre # Null
    /\ last.pre.used
    /\ ~(last.pre.expiresAt < now)

\* C3: consumeSession on an identifier whose expiry is in the past returns null,
\* whatever its used flag, and creates no session.
C3_ExpiredFails ==
    \A id \in DOMAIN sessions :
        sessions[id].expiresAt < now =>
            /\ Consumed(id).result = Null
            /\ Consumed(id).nextId = nextId
            /\ DOMAIN Consumed(id).sessions \subseteq DOMAIN sessions

\* an unused identifier was presented after its expiry and refused
C3_Witness ==
    /\ last.op = "consumeSession"
    /\ last.pre # Null
    /\ ~last.pre.used
    /\ last.pre.expiresAt < now
    /\ last.ret = Null

\* C4: a consumeSession(id) that succeeds leaves id marked used, returns the
\* credential and the user id stored under id, and returns a new identifier,
\* different from id, whose entry has that user id and credential, used = false
\* and expiry = the time of the call + 7 days.
C4_Rotation ==
    (last.op = "consumeSession" /\ last.ret # Null) =>
        LET id == last.arg
            new == last.ret.newRefreshToken
        IN  /\ id \in DOMAIN sessions
            /\ sessions[id].used
            /\ last.ret.moltbookApiKey = last.pre.moltbookApiKey
            /\ last.ret.userId = last.pre.userId
            /\ new # id
            /\ new \in DOMAIN sessions
            /\ sessions[new] = Session(last.pre.moltbookApiKey, last.pre.userId,
                                       now + 7 * 24 * 60 * 60 * 1000, FALSE)

\* an identifier was consumed later than it was created, so that the successor's
\* expiry differs from its own
C4_Witness ==
    /\ last.op = "consumeSession"
    /\ last.ret # Null
    /\ now > 0
    /\ sessions[last.ret.newRefreshToken].expiresAt # last.pre.expiresAt

\* C5: an entry that is used stays used while it is in the table, a removed
\* identifier is never inserted again, no call returns a credential by way of an
\* identifier that has been used (consumeSession on it, getMoltbookKey through
\* it), and no entry's expiresAt ever changes.
C5_UsedIsFinal ==
    [][ /\ \A id \in DOMAIN sessions \cap DOMAIN sessions' :
              /\ sessions'[id].expiresAt = sessions[id].expiresAt
              /\ sessions[id].used => sessions'[id].used
        /\ \A id \in Ids :
              (id < nextId /\ id \notin DOMAIN sessions) => id \notin DOMAIN sessions'
        /\ (last'.op = "consumeSession" /\ last'.ret # Null) =>
              (okCount[last'.arg] = 0 /\ ~sessions[last'.arg].used)
        /\ (last'.op = "getMoltbookKey" /\ last'.ret.via # 0) =>
              (okCount[last'.ret.via] = 0 /\ ~sessions[last'.ret.via].used)
      ]_vars

\* getMoltbookKey answered for a user who has a used entry in the table
C5_Witness ==
    /\ last.op = "getMoltbookKey"
    /\ last.ret.via # 0
    /\ \E id \in DOMAIN sessions :
          sessions[id].used /\ sessions[id].userId = last.arg /\ id < last.ret.via

\* C6: in every reachable state getMoltbookKey(userId) returns a credential if
\* and only if some session of that user is unused and unexpired, and the
\* credential is that of such a session of the same user. (Expired as
\* consumeSession and pruneExpired test it: expiresAt < now.)
C6_KeyIffLiveSession ==
    \A u \in Users :
        LET live == {id \in DOMAIN sessions :
                        sessions[id].userId = u /\ Live(sessions, id, now)}
        IN  /\ KeyOf(u) # "null" <=> live # {}
            /\ KeyOf(u) # "null" =>
                  \E id \in live : sessions[id].moltbookApiKey = KeyOf(u)

\* What does hold: the equivalence of C6 with getMoltbookKey's own test of expiry
\* (expiresAt > now), which differs from consumeSession's at expiresAt = now only.
KeyIffStrictlyLiveSession ==
    \A u \in Users :
        LET live == {id \in DOMAIN sessions :
                        /\ sessions[id].userId = u
                        /\ ~sessions[id].used
                        /\ sessions[id].expiresAt > now}
        IN  /\ KeyOf(u) # "null" <=> live # {}
            /\ KeyOf(u) # "null" =>
                  \E id \in live : sessions[id].moltbookApiKey = KeyOf(u)

\* C7: right after invalidateUser(userId) the table holds no entry of that user;
\* consumeSession fails on every identifier that had been issued to the user,
\* and getMoltbookKey(userId) is null until a session is next created for the user.
C7_InvalidateRemovesAll ==
    /\ last.op = "invalidateUser" =>
          \A id \in DOMAIN sessions : sessions[id].userId # last.arg
    /\ \A id \in revoked : Consumed(id).result = Null
    /\ \A u \in cleared :
          /\ KeyOf(u) = "null"
          /\ \A id \in DOMAIN sessions : sessions[id].userId # u

\* invalidateUser ran for a user with a session that was neither used nor expired
C7_Witness ==
    /\ last.op = "invalidateUser"
    /\ now = 0
    /\ \E id \in revoked : issuedTo[id] = last.arg /\ okCount[id] = 0

----------------------------------------------------------------------------
(* The refresh endpoint's claim, checked under SpecRefresh *)

\* C2: of two refresh requests with the same cookie whose session was unused and
\* unexpired when the first of them ran consumeSession, that first one gets the
\* new access token and the rotated cookie (the signing key being configured; a
\* 500 otherwise) and the other is answered 401; never are both answered 200.
C2_OneRefreshWins ==
    \A r1, r2 \in DOMAIN refresh :
        (/\ r1 # r2
         /\ refresh[r1].pc = "done" /\ refresh[r2].pc = "done"
         /\ refresh[r1].cookie # 0
         /\ refresh[r1].cookie = refresh[r2].cookie) =>
            /\ ~(refresh[r1].status = 200 /\ refresh[r2].status = 200)
            /\ refresh[r1].fresh =>
                  /\ refresh[r2].status = 401
                  /\ refresh[r2].accessToken = NoToken
                  /\ refresh[r2].setCookie = 0
                  /\ refresh[r1].status = IF privateKeyEnv = "set" THEN 200 ELSE 500
                  /\ privateKeyEnv = "set" =>
                        /\ refresh[r1].accessToken # NoToken
                        /\ refresh[r1].setCookie \notin {0, refresh[r1].cookie}

\* the second request ran consumeSession while the first awaited its signature
C2_Witness ==
    \E r1, r2 \in DOMAIN refresh :
        /\ refresh[r1].cookie = refresh[r2].cookie
        /\ refresh[r1].pc = "done" /\ refresh[r1].status = 200 /\ refresh[r1].fresh
        /\ refresh[r2].pc = "done" /\ refresh[r2].status = 401 /\ refresh[r2].raced

----------------------------------------------------------------------------
(* The Authorization Gate's claims, checked under SpecGate *)

Protected(request) == MatchesApi(request.path) /\ ~isPublicApiRoute(request)

Settled == gate.pc \in {"handler", "responded"}

\* the request carries a token that verifyAccessToken accepts now
Authentic(request) ==
    /\ ~TokenMissing(BearerToken(request.authorization))
    /\ verifyAccessToken(BearerToken(request.authorization), now)

\* C8: every request whose path starts with /api/ and that is not a public route
\* has gone through token extraction, verification and permission enforcement
\* when its route handler runs, whatever the path (a dot in it included).
C8_GateCoversApi ==
    (gate.pc = "handler" /\ Protected(gate.req)) =>
        {"extract", "verify", "permission"} \subseteq gate.ran

\* C9: a request to a protected route with no Authorization header, a header that
\* is not "Bearer <non-empty token>", or a token that fails verification is
\* answered 401: it never reaches a handler and is never answered 403; and the
\* permission check runs only on a verified token.
C9_Unauthenticated401 ==
    /\ (Settled /\ Protected(gate.req) /\ ~Authentic(gate.req)) =>
          (gate.pc = "responded" /\ gate.status = 401)
    /\ "permission" \in gate.ran => Authentic(gate.req)

\* C10: a request to a protected route with a correctly signed, unexpired token
\* reaches a handler only if the token's permissions hold the permission its
\* method and path require, and is answered 403 otherwise; so a token with the
\* agent role's permissions is refused on every DELETE under /api/.
C10_PermissionEnforced ==
    (Settled /\ Protected(gate.req) /\ Authentic(gate.req)) =>
        LET token == BearerToken(gate.req.authorization)
            required == getRequiredPermission(gate.req.method, gate.req.path)
        IN  /\ gate.pc = "handler" => required \in token.permissions
            /\ required \notin token.permissions =>
                  (gate.pc = "responded" /\ gate.status = 403)
            /\ (gate.req.method = "DELETE"
                 /\ token.permissions = ROLE_PERMISSIONS.agent) =>
                  gate.pc = "responded"

\* What does hold: for the requests config.matcher hands to the middleware, the
\* three statements above.
GateSoundWhereItRuns ==
    Matcher(gate.req.path) =>
        (C8_GateCoversApi /\ C9_Unauthenticated401 /\ C10_PermissionEnforced)

\* C13: when a proxy handler under /api/ reads x-user-id and x-user-role, they
\* are the subject and role of an access token the gate verified for that same
\* request; what the client sent as x-user-id never reaches the handler.
C13_IdentityFromToken ==
    (gate.pc = "handler" /\ Protected(gate.req)) =>
        /\ "verify" \in gate.ran
        /\ Authentic(gate.req)
        /\ gate.xUserId = BearerToken(gate.req.authorization).sub
        /\ gate.xUserRole = BearerToken(gate.req.authorization).role

\* What does hold: for the requests config.matcher hands to the middleware, the
\* handler's identity headers are those of the verified token.
IdentityFromTokenWhereGateRuns ==
    Matcher(gate.req.path) => C13_IdentityFromToken

\* the response the client is sent
Response == [status |-> gate.status, body |-> gate.body]

\* C14: the response to a rejected request to a protected route depends on the
\* kind of rejection only: whatever the request, its header, its token and the
\* permission it lacks, an unauthenticated one is sent one and the same 401
\* response and a forbidden one is sent one and the same 403 response.
C14_RejectionsUniform ==
    (gate.pc = "responded" /\ Protected(gate.req)) =>
        IF Authentic(gate.req)
        THEN Response = [status |-> 403, body |-> [error |-> "Forbidden"]]
        ELSE Response = [status |-> 401, body |-> [error |-> "Unauthorized"]]

\* a token with no permission at all was refused a DELETE
C14_Witness ==
    /\ gate.pc = "responded"
    /\ gate.status = 403
    /\ gate.req.method = "DELETE"
    /\ BearerToken(gate.req.authorization).permissions = {}

----------------------------------------------------------------------------
(* The permission-rule resolver's claims, checked under SpecGate on the request
   the gate holds *)

RuleApplies(i, method, pathname) ==
    /\ ROUTE_PERMISSIONS[i].method = method
    /\ PatternTest(ROUTE_PERMISSIONS[i].pattern, pathname)

\* C11: getRequiredPermission returns the permission of the first rule, in list
\* order, whose method is the request's and whose pattern matches the path:
\* DELETE on a path beginning /api/ gives "delete", PATCH on a path beginning
\* /api/agents gives "write", and GET /api/posts matches no rule and gives "read".
C11_FirstRuleWins ==
    gate.pc # "idle" =>
        LET method == gate.req.method
            pathname == gate.req.path
            required == getRequiredPermission(method, pathname)
        IN  /\ \A i \in 1..Len(ROUTE_PERMISSIONS) :
                  (/\ RuleApplies(i, method, pathname)
                   /\ \A j \in 1..(i - 1) : ~RuleApplies(j, method, pathname)) =>
                      required = ROUTE_PERMISSIONS[i].requires
            /\ (method = "DELETE" /\ MatchesApi(pathname)) => required = "delete"
            /\ (method = "PATCH" /\ MatchesApiAgents(pathname)) => required = "write"
            /\ (method = "GET" /\ pathname = <<"/", "api", "/", "posts">>) =>
                  /\ \A i \in 1..Len(ROUTE_PERMISSIONS) : ~RuleApplies(i, method, pathname)
                  /\ required = "read"

\* the gate resolved the permission of DELETE /api/posts/123
C11_Witness ==
    /\ gate.pc = "responded"
    /\ "permission" \in gate.ran
    /\ gate.req.method = "DELETE"
    /\ gate.req.path = <<"/", "api", "/", "posts", "/", "123">>

\* the methods RFC 9110 defines as safe, of those followed
SafeMethods == {"GET", "HEAD", "OPTIONS"}

\* C12: when no rule applies, getRequiredPermission returns "read" for the safe
\* methods GET, HEAD and OPTIONS and "write" for POST, PUT, PATCH and DELETE.
C12_DefaultBySafety ==
    (/\ gate.pc # "idle"
     /\ \A i \in 1..Len(ROUTE_PERMISSIONS) :
            ~RuleApplies(i, gate.req.method, gate.req.path)) =>
        getRequiredPermission(gate.req.method, gate.req.path) =
            IF gate.req.method \in SafeMethods THEN "read" ELSE "write"

\* What does hold: the default is "read" for GET and HEAD and "write" for every
\* other method, OPTIONS included.
DefaultReadForGetAndHead ==
    (/\ gate.pc # "idle"
     /\ \A i \in 1..Len(ROUTE_PERMISSIONS) :
            ~RuleApplies(i, gate.req.method, gate.req.path)) =>
        getRequiredPermission(gate.req.method, gate.req.path) =
            IF gate.req.method \in {"GET", "HEAD"} THEN "read" ELSE "write"

----------------------------------------------------------------------------
(* The access token's claims, checked under SpecJwt *)

\* C15 as stated: for every subject, role and permission list, verifyAccessToken
\* on the token signAccessToken returned, with the same keys, issuer and
\* audience and less than 15 minutes after the signing, succeeds and returns
\* exactly the subject, role and permissions issued.
C15_RoundTripWithin15Minutes ==
    (/\ jwt.pc = "verified"
     /\ publicKeyEnv = "set"
     /\ jwt.verifiedAt - jwt.signedAt < 15 * 60 * 1000) =>
        jwt.result = jwt.payload

\* C15: for every subject, role and permission list, verifyAccessToken on the
\* token signAccessToken returned, with the same keys, issuer and audience,
\* succeeds and returns exactly the subject, role and permissions issued while
\* the clock's whole second is less than 900 past the whole second of the signing.
C15_RoundTrip ==
    (/\ jwt.pc = "verified"
     /\ publicKeyEnv = "set"
     /\ jwt.verifiedAt \div 1000 < jwt.signedAt \div 1000 + 15 * 60) =>
        jwt.result = jwt.payload

\* a token issued to the role "user" with the admin's permissions was verified
\* later than it was signed and came back as issued
C15_Witness ==
    /\ jwt.pc = "verified"
    /\ jwt.verifiedAt > jwt.signedAt
    /\ jwt.payload.role = "user"
    /\ jwt.payload.permissions = ROLE_PERMISSIONS.admin
    /\ jwt.result = jwt.payload

----------------------------------------------------------------------------
(* Login, the gate and the refresh endpoint together, checked under SpecFlow *)

\* the token the gate's request bears
Borne == BearerToken(gate.req.authorization)

\* C16: an access token's expiry is its issue time plus 15 minutes; once the
\* clock has passed the expiry verifyAccessToken fails on the token, its
\* signature, issuer and audience being valid, and every protected request that
\* bears it is answered 401 by the gate.
C16_ExpiredTokenRefused ==
    /\ login.status = 200 =>
          /\ login.accessToken.exp = login.signedAt \div 1000 + 15 * 60
          /\ now > login.accessToken.exp * 1000 =>
                ~verifyAccessToken(login.accessToken, now)
    /\ (/\ Settled
        /\ Protected(gate.req)
        /\ gate.at > Borne.exp * 1000) =>
          (gate.pc = "responded" /\ gate.status = 401)

\* What does hold: the statement of C16 for the requests config.matcher hands
\* to the middleware.
ExpiredTokenRefusedWhereGateRuns ==
    Matcher(gate.req.path) => C16_ExpiredTokenRefused

\* C19: a login with a valid credential returns an access token and a refresh
\* cookie; a protected GET under /api/ bearing that token, the token not yet
\* expired, is forwarded by the gate; and once a refresh request has exchanged
\* the cookie, a refresh request presenting the same cookie is answered 401.
C19_LoginReadReplay ==
    login.status = 200 =>
        /\ login.accessToken # NoToken
        /\ login.setCookie # 0
        /\ (/\ Settled
            /\ gate.req.method = "GET"
            /\ Protected(gate.req)
            /\ Borne = login.accessToken
            /\ gate.at \div 1000 < login.signedAt \div 1000 + 15 * 60) =>
              gate.pc = "handler"
        /\ \A r1, r2 \in DOMAIN refresh :
              (/\ r1 # r2
               /\ refresh[r1].cookie = login.setCookie
               /\ refresh[r2].cookie = login.setCookie
               /\ refresh[r1].status = 200
               /\ refresh[r2].pc = "done") =>
                  refresh[r2].status = 401

\* after the login the gate verified the token on a GET and let it through, the
\* cookie was exchanged, and the cookie presented again was answered 401
C19_Witness ==
    /\ login.status = 200
    /\ gate.pc = "handler"
    /\ gate.req.method = "GET"
    /\ "verify" \in gate.ran
    /\ Borne = login.accessToken
    /\ \E r1, r2 \in DOMAIN refresh :
          /\ refresh[r1].cookie = login.setCookie
          /\ refresh[r1].status = 200
          /\ refresh[r2].cookie = login.setCookie
          /\ refresh[r2].pc = "done"
          /\ refresh[r2].status = 401
          /\ ~refresh[r2].raced

----------------------------------------------------------------------------
(* The handling of a missing key, checked under SpecKeys *)

\* what login, refresh and the key cache do when a key cannot be had: nothing
\* is cached, and a login or a refresh that got as far as signing answers 500
KeyFailureIsCaught ==
    /\ privateKeyEnv # "set" => privateKey = "null"
    /\ publicKeyEnv # "set" => publicKey = "null"
    /\ (privateKeyEnv # "set" /\ login.pc = "done" /\ login.refreshToken # 0) =>
          login.status = 500
    /\ \A r \in DOMAIN refresh :
          (/\ privateKeyEnv # "set"
           /\ refresh[r].pc = "done"
           /\ refresh[r].newRefreshToken # 0) =>
              refresh[r].status = 500

\* C20: when a key's environment value is absent or unparsable, getPrivateKey /
\* getPublicKey fail and cache nothing, login and refresh answer 500, and the
\* gate answers a protected request whose token it could not verify for lack of
\* the public key with an internal error, not with 401.
C20_KeyFailureIsInternalError ==
    /\ KeyFailureIsCaught
    /\ (/\ publicKeyEnv # "set"
        /\ gate.pc = "responded"
        /\ "verify" \in gate.ran) =>
          (gate.status >= 500 /\ gate.body # [error |-> "Unauthorized"])

\* What does hold: the first three parts of C20, and 401 Unauthorized from the
\* gate when the public key cannot be had.
KeyFailureIs401AtTheGate ==
    /\ KeyFailureIsCaught
    /\ (/\ publicKeyEnv # "set"
        /\ gate.pc = "responded"
        /\ "verify" \in gate.ran) =>
          (gate.status = 401 /\ gate.body = [error |-> "Unauthorized"])

----------------------------------------------------------------------------
(* The login rate limiter's claims, checked under SpecLimiter *)

\* C17: per source address, counting from the first attempt of a window, the
\* attempts 1 to 10 made within 15 minutes pass the rate check and the 11th and
\* every later one of the window is answered 429; the first attempt made after
\* the window has elapsed passes and starts a new window with count 1.
C17_TenPerWindow ==
    /\ \A ip \in DOMAIN tried :
          /\ ip \in DOMAIN loginAttempts
          /\ loginAttempts[ip].windowStart = tried[ip].start
          /\ loginAttempts[ip].count = IF tried[ip].n <= 10 THEN tried[ip].n ELSE 10
    /\ login.pc # "idle" =>
          /\ tried[login.ip].n <= 10 => login.status # 429
          /\ tried[login.ip].n >= 11 => (login.pc = "done" /\ login.status = 429)

\* an address that had been refused made the first attempt of a new window, and
\* it passed
C17_Witness ==
    /\ login.pc # "idle"
    /\ login.status # 429
    /\ tried[login.ip].refused
    /\ tried[login.ip].n = 1
    /\ tried[login.ip].start = now
    /\ loginAttempts[login.ip] = [count |-> 1, windowStart |-> now]

\* the passes of an address recorded from time w on and less than 15 minutes later
PassesFrom(ip, w) ==
    {j \in 1..Len(passed[ip]) :
        passed[ip][j] >= w /\ passed[ip][j] - w < 15 * 60 * 1000}

\* C18: the limiter is a sliding-window counter: for every source address and
\* every 15-minute interval, wherever it starts, at most 10 attempts from that
\* address pass the rate check.
C18_SlidingWindow ==
    \A ip \in Ips :
        \A i \in 1..Len(passed[ip]) :
            Cardinality(PassesFrom(ip, passed[ip][i])) <= 10

\* What does hold of an interval of 15 minutes: it meets at most two of the
\* limiter's windows, so at most 20 attempts pass in it.
AtMostTwoWindowsPerInterval ==
    \A ip \in Ips :
        \A i \in 1..Len(passed[ip]) :
            Cardinality(PassesFrom(ip, passed[ip][i])) <= 2 * RATE_LIMIT

----------------------------------------------------------------------------
(* Claims about the key cache *)

\* the successful calls for key w
Returned(w) ==
    {c \in 1..MaxKeyCalls : /\ keyCalls.calls[c].pc = "done"
                            /\ keyCalls.calls[c].which = w
                            /\ ~keyCalls.calls[c].threw}

\* C21: for each key, over any calls of its getter, concurrent first calls
\* included, the key material is read and imported at most once, the cache is
\* assigned at most once, and all successful calls return the same key object
C21_PopulateOnce ==
    \A w \in KeyNames :
        /\ keyCalls.reads[w] <= 1
        /\ keyCalls.assigns[w] <= 1
        /\ \A c, d \in Returned(w) : keyCalls.calls[c].result = keyCalls.calls[d].result

\* what holds of the code: calls made after the cache was assigned make no
\* import, and a call that makes none returns the object the cache holds
CachedKeyIsReused ==
    \A w \in KeyNames :
        /\ keyCalls.assigns[w] <= keyCalls.reads[w]
        /\ keyCalls.reads[w] <= MaxKeyCalls
        /\ (keyCalls.cached[w] # 0) <=> (CacheOf(w) # "null")
        /\ \A c \in Returned(w) : keyCalls.calls[c].result \in 1..keyCalls.objects

----------------------------------------------------------------------------
(* Claims about the sweep *)

StoreCalls == {"createSession", "consumeSession", "getMoltbookKey", "invalidateUser"}

\* C22: over every sequence of createSession, consumeSession, getMoltbookKey and
\* invalidateUser calls with the clock advancing, each call returns the same
\* value whether pruneExpired never runs or runs at any points in between
C22_SweepIsUnobservable ==
    last.op \in StoreCalls => last.ret = shadow.result

\* an identifier the sweep has removed, and that is still in the copy, was
\* presented to consumeSession
C22_Witness ==
    /\ last.op = "consumeSession"
    /\ last.arg \in DOMAIN shadow.sessions
    /\ last.arg \notin DOMAIN sessions
    /\ \E u \in DOMAIN userSessions : userSessions[u] # shadow.userSessions[u]

----------------------------------------------------------------------------
(* Claims about a refused login *)

\* C23: a login attempt the rate limiter refuses leaves the entry (count,
\* windowStart) of its address and of every other address unchanged, sends
\* nothing to the backend, creates no session and issues no token
C23_RefusedAttemptChangesNothing ==
    [][ (tried' # tried /\ login'.status = 429) =>
            /\ loginAttempts' = loginAttempts
            /\ UNCHANGED <<sessions, userSessions, nextId>>
            /\ login'.pc = "done"
            /\ login'.accessToken = NoToken
            /\ login'.refreshToken = 0
            /\ login'.setCookie = 0
      ]_vars

\* an attempt was refused while another address had an entry and a session
\* was in the table
C23_Witness ==
    /\ login.status = 429
    /\ login.pc = "done"
    /\ \E i \in DOMAIN loginAttempts : i # login.ip
    /\ DOMAIN sessions # {}

----------------------------------------------------------------------------
(* Claims about rotation chains *)

\* the identifiers of the chain that starts with the login-created identifier
\* root and that the table holds unused
UnusedOf(S, C, root) == {id \in DOMAIN S : C[id] = root /\ ~S[id].used}

\* C24: within one rotation chain (a login-created session and its successors)
\* at most one identifier is unused in every reachable state, and a successor
\* is added only by a consumeSession call that has marked its predecessor used
C24_OneUnusedPerChain ==
    [][ /\ \A root \in Ids :
              Cardinality(UnusedOf(sessions', chainOf', root)) <= 1
        /\ \A id \in DOMAIN chainOf' \ DOMAIN chainOf :
              chainOf'[id] # id =>
                  /\ last'.op = "consumeSession"
                  /\ last'.ret # Null
                  /\ last'.ret.newRefreshToken = id
                  /\ chainOf[last'.arg] = chainOf'[id]
                  /\ ~sessions[last'.arg].used
                  /\ sessions'[last'.arg].used
                  /\ UnusedOf(sessions', chainOf', chainOf'[id]) = {id}
      ]_vars

\* a chain of three: two rotations of one login's identifier
C24_Witness ==
    \E id \in DOMAIN sessions :
        /\ ~sessions[id].used
        /\ chainOf[id] # id
        /\ \E mid \in DOMAIN sessions :
              /\ mid # id
              /\ mid # chainOf[id]
              /\ chainOf[mid] = chainOf[id]
              /\ sessions[mid].used

----------------------------------------------------------------------------
(* Claims about the removal of sessions *)

InTable(id) == id \in DOMAIN sessions
InIndex(id) == \E u \in DOMAIN userSessions : id \in SetOf(userSessions[u])

\* C25: with the clock advancing and the hourly sweep running, every session
\* identifier ever created, an undelivered rotated successor included, is
\* eventually removed from the sessions table and from the per-user index, and
\* never comes back
C25_EveryIdentifierIsRemoved ==
    \A id \in Ids :
        [](id \in DOMAIN issuedTo => <>[](~InTable(id) /\ ~InIndex(id)))

\* what holds of the code: every identifier eventually leaves the sessions
\* table and never comes back
EveryIdentifierLeavesTheTable ==
    \A id \in Ids : [](id \in DOMAIN issuedTo => <>[](~InTable(id)))

----------------------------------------------------------------------------
(* Claims about the public routes, checked under SpecGate *)

\* the request went on to its handler with no token extracted or verified
PassedUnchecked ==
    gate.pc = "handler" /\ gate.ran \cap {"extract", "verify", "permission"} = {}

\* C26: a request passes with no token check exactly when its path does not
\* start with /api/ or its method and path are GET /api/health, POST
\* /api/auth/login or POST /api/auth/refresh, whatever its Authorization header;
\* any other method, or a longer or differently terminated path, is protected
C26_PublicExactly ==
    Settled =>
        (PassedUnchecked <=> (~MatchesApi(gate.req.path) \/ isPublicApiRoute(gate.req)))

\* What does hold: the same for the requests config.matcher hands to the
\* middleware, and every request outside /api/ or to a public route passes
\* unchecked
PublicExactlyWhereGateRuns ==
    Settled =>
        /\ Matcher(gate.req.path) =>
              (PassedUnchecked <=> (~MatchesApi(gate.req.path) \/ isPublicApiRoute(gate.req)))
        /\ (~MatchesApi(gate.req.path) \/ isPublicApiRoute(gate.req)) => PassedUnchecked

----------------------------------------------------------------------------
(* Claims about the index, checked under SpecStore *)

\* every identifier the index lists is a key of the table, under the same user
IndexedAreStored(S, U) ==
    \A u \in DOMAIN U : \A id \in SetOf(U[u]) : id \in DOMAIN S /\ S[id].userId = u

\* every entry of the table is listed in the index under its user
StoredAreIndexed(S, U) ==
    \A id \in DOMAIN S :
        S[id].userId \in DOMAIN U /\ id \in SetOf(U[S[id].userId])

\* C27: in every reachable state every identifier in userSessions[u] is a key
\* of sessions whose entry has userId u, and every entry of sessions is listed
\* in userSessions under its userId; createSession, consumeSession (its
\* expired branch included), invalidateUser and pruneExpired preserve this
C27_IndexConsistent ==
    /\ IndexedAreStored(sessions, userSessions)
    /\ StoredAreIndexed(sessions, userSessions)

\* What does hold: every entry of the table is indexed under its user, and
\* every identifier the index lists under a user was created for that user
TableIsIndexed ==
    /\ StoredAreIndexed(sessions, userSessions)
    /\ \A u \in DOMAIN userSessions : \A id \in SetOf(userSessions[u]) :
          id \in DOMAIN issuedTo /\ issuedTo[id] = u

----------------------------------------------------------------------------
(* Claims about the role of an issued token, checked under SpecRoles *)

\* the token a finished login returned is the role's: admin with read, write,
\* delete and admin exactly for a user of the admin list, agent with read and
\* write otherwise
LoginRoleByAdminList ==
    (login.pc = "done" /\ login.status = 200) =>
        IF login.userId \in ADMIN_USER_IDS
        THEN /\ login.accessToken.role = "admin"
             /\ login.accessToken.permissions = {"read", "write", "delete", "admin"}
        ELSE /\ login.accessToken.role = "agent"
             /\ login.accessToken.permissions = {"read", "write"}

\* every token the refresh endpoint returned is an agent's
RefreshIssuesAgent ==
    \A r \in DOMAIN refresh :
        refresh[r].accessToken # NoToken =>
            /\ refresh[r].accessToken.role = "agent"
            /\ refresh[r].accessToken.permissions = {"read", "write"}

\* the request the gate holds bears a token the refresh endpoint returned
BearsRefreshed ==
    /\ gate.req.authorization # NoBearer
    /\ \E r \in DOMAIN refresh :
          /\ refresh[r].accessToken # NoToken
          /\ BearerToken(gate.req.authorization) = refresh[r].accessToken

\* C28: login gives role admin with {read, write, delete, admin} exactly to the
\* users of the admin list and agent with {read, write} to the others, every
\* token the refresh endpoint issues is an agent's with {read, write}, and so
\* a DELETE under /api/ bearing a refreshed token, an administrator's included,
\* is answered 403
C28_RefreshedDeleteForbidden ==
    /\ LoginRoleByAdminList
    /\ RefreshIssuesAgent
    /\ (Settled /\ gate.req.method = "DELETE" /\ MatchesApi(gate.req.path)
          /\ BearsRefreshed) =>
            (gate.pc = "responded" /\ gate.status = 403)

\* What does hold: the roles as stated, and the 403 for the requests
\* config.matcher hands to the middleware
RefreshedDeleteForbiddenWhereGateRuns ==
    /\ LoginRoleByAdminList
    /\ RefreshIssuesAgent
    /\ (Settled /\ gate.req.method = "DELETE" /\ MatchesApi(gate.req.path)
          /\ Matcher(gate.req.path) /\ BearsRefreshed) =>
            (gate.pc = "responded" /\ gate.status = 403)

\* an administrator logged in, refreshed, and the refreshed token was refused
\* on a delete
AdminRefreshedRefused ==
    /\ gate.pc = "responded" /\ gate.status = 403
    /\ BearsRefreshed
    /\ BearerToken(gate.req.authorization).sub \in ADMIN_USER_IDS

----------------------------------------------------------------------------
(* Claims about the separation of users, checked under SpecStore *)

\* the user a call is about: the one named, or the one the identifier
\* presented was created for ("" when it never was created)
OwnerOf(call) ==
    IF call.op = "consumeSession"
    THEN IF call.arg \in DOMAIN issuedTo THEN issuedTo[call.arg] ELSE ""
    ELSE call.arg

\* what user b has in the table and in the index
EntriesOf(S, U, b) ==
    [table |-> [id \in {i \in DOMAIN S : S[i].userId = b} |-> S[id]],
     index |-> IF b \in DOMAIN U THEN U[b] ELSE Null]

\* what consumeSession would return for id, the new identifier apart
WouldConsume(S, U, n, id, t) ==
    LET r == consumeSession(S, U, n, id, t).result
    IN  IF r = Null THEN Null
        ELSE [moltbookApiKey |-> r.moltbookApiKey, userId |-> r.userId]

\* C29: createSession for a user, a successful or failed consumeSession of one
\* of that user's identifiers and invalidateUser of that user leave every entry
\* of every other user unchanged, and with it what getMoltbookKey and
\* consumeSession return for the other user; getMoltbookKey changes no state
C29_UsersAreSeparate ==
    [][ /\ last'.op \in {"createSession", "consumeSession", "invalidateUser"} =>
              \A b \in Users \ {OwnerOf(last')} :
                  /\ EntriesOf(sessions', userSessions', b)
                        = EntriesOf(sessions, userSessions, b)
                  /\ getMoltbookKey(sessions', userSessions', b, now') = KeyOf(b)
                  /\ \A id \in DOMAIN issuedTo :
                        issuedTo[id] = b =>
                            WouldConsume(sessions', userSessions', nextId', id, now')
                              = WouldConsume(sessions, userSessions, nextId, id, now)
        /\ last'.op = "getMoltbookKey" => UNCHANGED <<sessions, userSessions, nextId>>
      ]_vars

\* one user's sessions were invalidated while another had a session that
\* getMoltbookKey answers for
C29_Witness ==
    /\ last.op = "invalidateUser"
    /\ last.arg \in cleared
    /\ \E id \in DOMAIN issuedTo : issuedTo[id] = last.arg
    /\ \E b \in Users \ {last.arg} : KeyOf(b) # "null"

----------------------------------------------------------------------------
(* Claims about a refresh that fails, checked under SpecRefresh *)

\* the steps of request r: consumeSession accepted its cookie; its signature
\* failed; it was answered 401
Rotates(r) == refresh[r].pc = "idle" /\ refresh'[r].pc = "signing"
SigningFails(r) == refresh[r].pc = "signing" /\ refresh'[r].status = 500
Refuses(r) == refresh[r].pc = "idle" /\ refresh'[r].status = 401

\* the rotation is committed before the signature: when consumeSession has
\* accepted the cookie its entry is used and the successor is in the table,
\* unused; when the signature then fails the answer is 500 with no token and
\* no cookie, the store is left as it is, the successor has been delivered to
\* nobody, and the same cookie presented again is refused
RotationBeforeSigning ==
    \A r \in DOMAIN refresh :
        /\ Rotates(r) =>
              /\ sessions'[refresh'[r].cookie].used
              /\ Live(sessions', refresh'[r].newRefreshToken, now')
              /\ refresh'[r].newRefreshToken \notin DOMAIN sessions
        /\ SigningFails(r) =>
              /\ refresh'[r].accessToken = NoToken
              /\ refresh'[r].setCookie = 0
              /\ UNCHANGED <<sessions, userSessions, nextId>>
              /\ \A q \in DOMAIN refresh : refresh'[q].setCookie # refresh[r].newRefreshToken
              /\ consumeSession(sessions', userSessions', nextId', refresh[r].cookie,
                                now').result = Null
        /\ (refresh'[r].pc = "done" /\ refresh'[r].status = 500) =>
              consumeSession(sessions', userSessions', nextId', refresh'[r].cookie,
                             now').result = Null

\* C30: the refresh endpoint commits the rotation before it signs: when
\* signAccessToken fails after consumeSession has succeeded the answer is 500
\* with no new cookie, the identifier presented is used and its successor,
\* delivered to nobody, exists, so presenting the same cookie again gives 401;
\* and a refresh answered 401 for a missing cookie or for an absent or
\* already-used identifier changes nothing in the store
C30_FailedRefreshBurnsCookie ==
    [][ /\ RotationBeforeSigning
        /\ \A r \in DOMAIN refresh :
              (/\ Refuses(r)
               /\ \/ refresh'[r].cookie = 0
                  \/ refresh'[r].cookie \notin DOMAIN sessions
                  \/ sessions[refresh'[r].cookie].used) =>
                  UNCHANGED <<sessions, userSessions, nextId>>
      ]_vars

\* the same, the 401 for an already-used identifier changing nothing when the
\* identifier has not expired
C30_FailedRefreshBurnsUnexpiredCookie ==
    [][ /\ RotationBeforeSigning
        /\ \A r \in DOMAIN refresh :
              (/\ Refuses(r)
               /\ \/ refresh'[r].cookie = 0
                  \/ refresh'[r].cookie \notin DOMAIN sessions
                  \/ /\ sessions[refresh'[r].cookie].used
                     /\ ~(sessions[refresh'[r].cookie].expiresAt < now)) =>
                  UNCHANGED <<sessions, userSessions, nextId>>
      ]_vars

\* a refresh whose signature failed was followed by one with the same cookie,
\* refused, while the successor sat in the table unused
C30_Witness ==
    \E r1, r2 \in DOMAIN refresh :
        /\ refresh[r1].pc = "done" /\ refresh[r1].status = 500
        /\ refresh[r1].newRefreshToken \in DOMAIN sessions
        /\ ~sessions[refresh[r1].newRefreshToken].used
        /\ refresh[r2].pc = "done" /\ refresh[r2].status = 401
        /\ refresh[r2].cookie = refresh[r1].cookie
        /\ sessions[refresh[r1].cookie].used

=============================================================================
